---- MODULE Spec2Model ----
(***************************************************************************)
(* SimpleVector<Type> (src/simple_vector.h) over the buffer owner          *)
(* ArrayPtr<Type> (array_ptr.h, not part of src/).                         *)
(*                                                                         *)
(* Two names, "a" and "b", each for a vector object that is constructed,   *)
(* used and destroyed, over one heap of blocks.  Type is a small integer   *)
(* type: moving an element copies it and leaves the source cell as it was. *)
(*  A cell index is 0-based as in the source; a block's    *)
(* cells are a TLA+ sequence, so cell i is cells[i + 1].                   *)
(*                                                                         *)
(* An access to a cell outside the block a vector owns is undefined        *)
(* behaviour.  The operation that makes it ends with res = "ub" and the    *)
(* step that commits it chooses among the outcomes: the access traps       *)
(* (the only outcome behind a null pointer), or it goes astray past the    *)
(* end of the block (a load yields nothing the vector keeps, a store is    *)
(* lost or lands in a cell of another live block).  Nothing is defined     *)
(* after such a step, so no operation is run after it.                     *)
(***************************************************************************)
EXTENDS Integers, Sequences, FiniteSets, TLC

VARIABLES vec, heap, alive, last, keep

vars == <<vec, heap, alive, last, keep>>

(* Bounds of the exploration. *)
MaxCap == 4
MaxCap2 == 1
MaxCapCopy == 2
MaxVal == 1
MaxList == 3
MaxGrow == 8
MaxCmp == 2
NumBlocks == 3

(* Type(): the value-initialised element. *)
Default == 0

Values == 0..MaxVal

Vecs == {"a", "b"}

Other(x) == IF x = "a" THEN "b" ELSE "a"

Max(m, n) == IF m >= n THEN m ELSE n

Min(m, n) == IF m <= n THEN m ELSE n

(***************************************************************************)
(* ArrayPtr<Type>: the exclusive owner of one heap block.                  *)
(***************************************************************************)
Null == 0

Blocks == 1..NumBlocks

(* The cells of the block p points at; nothing behind the null pointer. *)
Cells(h, p) == IF p = Null THEN <<>> ELSE h[p]

BlockLen(h, p) == Len(Cells(h, p))

FreeIds(h) == {b \in Blocks : h[b] = <<>>}

(* ArrayPtr(size): a block of size value-initialised cells, null for 0. *)
ArrayPtrNew(h, n) ==
    IF n = 0
    THEN [p |-> Null, h |-> h]
    ELSE LET b == CHOOSE c \in FreeIds(h) : \A d \in FreeIds(h) : c <= d
         IN  [p |-> b, h |-> [h EXCEPT ![b] = [i \in 1..n |-> Default]]]

(* ~ArrayPtr(): the owned block is released. *)
ArrayPtrFree(h, p) == IF p = Null THEN h ELSE [h EXCEPT ![p] = <<>>]

(***************************************************************************)
(* The result of running a member function on vector s over heap h:        *)
(*   s, h   the vector's fields and the heap afterwards                    *)
(*   res    "ok", "bad_alloc" (std::bad_alloc propagates), "out_of_range"  *)
(*          (std::out_of_range propagates) or "ub"                         *)
(*   ret    the returned iterator (Insert, Erase): block and cell index    *)
(*   stray  the values stored outside the owned block                      *)
(***************************************************************************)
NoPos == [p |-> Null, i |-> 0]

Done(s, h) == [s |-> s, h |-> h, res |-> "ok", ret |-> NoPos, stray |-> {}]

(* An exception leaves through the member function: what it had done stays. *)
Throw(s, h) == [Done(s, h) EXCEPT !.res = "bad_alloc"]

(* size_ = 0, capacity_ = 0, items_ null. *)
EmptyVector == [size |-> 0, capacity |-> 0, items |-> Null]

(* The logical sequence [begin(), end()) of s; a cell outside the owned   *)
(* block has no value the model knows and reads as -1.                    *)
Elems(s, h) ==
    [i \in 1..s.size |->
        IF i <= BlockLen(h, s.items) THEN Cells(h, s.items)[i] ELSE -1]

(* items_[i] = val *)
Store(r, i, val) ==
    IF i < BlockLen(r.h, r.s.items)
    THEN [r EXCEPT !.h = [@ EXCEPT ![r.s.items] = [@ EXCEPT ![i + 1] = val]]]
    ELSE [r EXCEPT !.res = "ub", !.stray = @ \cup {val}]

(* std::move(first, last, d) with d a temporary (Type() or a value) and   *)
(* not a position of the block: cells [first, last) are loaded and no     *)
(* cell of the block is stored to.  (The call is well-formed only for a   *)
(* Type that can stand as an output iterator; for int the member that     *)
(* makes it does not compile.)                                            *)
MoveOut(r, first, lst) ==
    IF first < lst /\ lst > BlockLen(r.h, r.s.items)
    THEN [r EXCEPT !.res = "ub"]
    ELSE r

(* std::move_backward(&items_[number_pos], end(), &items_[size_ + 1]):    *)
(* cells [number_pos, size_) go one cell right, the last one first.       *)
MoveBackward(r, number_pos) ==
    LET old == Cells(r.h, r.s.items)
        n   == Len(old)
        sz  == r.s.size
        new == [i \in 1..n |->
                  IF number_pos + 1 < i /\ i <= sz + 1 THEN old[i - 1] ELSE old[i]]
    IN  IF number_pos >= sz
        THEN r
        ELSE IF sz < n
        THEN [r EXCEPT !.h = [@ EXCEPT ![r.s.items] = new]]
        ELSE [r EXCEPT !.res = "ub",
                       !.h = IF n = 0 THEN @ ELSE [@ EXCEPT ![r.s.items] = new],
                       !.stray = @ \cup (IF sz <= n THEN {old[sz]} ELSE {})]

(***************************************************************************)
(* SimpleVector's member functions.  ok tells whether the allocator can    *)
(* serve a request the function makes.                                     *)
(***************************************************************************)
(* Reserve that allocates the new block and does not move the elements. *)
Reserve_NoMove(s, h, new_capacity, ok) ==
    IF new_capacity >= s.capacity
    THEN IF new_capacity > 0 /\ ~ok
         THEN Throw(s, h)
         ELSE LET a == ArrayPtrNew(h, new_capacity)
              IN  Done([s EXCEPT !.items = a.p, !.capacity = new_capacity],
                       ArrayPtrFree(a.h, s.items))
    ELSE Done(s, h)

Reserve(s, h, new_capacity, ok) ==
    IF new_capacity >= s.capacity
    THEN IF new_capacity > 0 /\ ~ok
         THEN Throw(s, h)
         ELSE LET a   == ArrayPtrNew(h, new_capacity)
                  old == Cells(h, s.items)
                  h1  == IF a.p = Null
                         THEN a.h
                         ELSE [a.h EXCEPT ![a.p] =
                                 [i \in 1..new_capacity |->
                                    IF i <= s.size /\ i <= Len(old)
                                    THEN old[i] ELSE Default]]
                  r   == Done([s EXCEPT !.items = a.p, !.capacity = new_capacity],
                              ArrayPtrFree(h1, s.items))
              IN  IF s.size > Len(old) THEN [r EXCEPT !.res = "ub"] ELSE r
    ELSE Done(s, h)

(* A Clear that gives the block back. *)
Clear_Release(s, h) == Done(EmptyVector, ArrayPtrFree(h, s.items))

Clear(s, h) == Done([s EXCEPT !.size = 0], h)

(* Resize that sets the size without growing the block. *)
Resize_NoReserve(s, h, new_size, ok) ==
    IF new_size < s.size
    THEN Done([s EXCEPT !.size = new_size], h)
    ELSE [MoveOut(Done(s, h), s.size, s.capacity) EXCEPT !.s.size = new_size]

Resize(s, h, new_size, ok) ==
    IF new_size < s.size
    THEN Done([s EXCEPT !.size = new_size], h)
    ELSE IF new_size <= s.capacity
    THEN [MoveOut(Done(s, h), s.size, s.capacity) EXCEPT !.s.size = new_size]
    ELSE LET g == Reserve(s, h, Max(new_size, 2 * s.capacity), ok)
         IN  IF g.res = "bad_alloc"
             THEN g
             ELSE [MoveOut(g, g.s.size, new_size) EXCEPT !.s.size = new_size]

(* PushBack that grows a full block by one cell. *)
PushBack_GrowByOne(s, h, item, ok) ==
    LET r == IF s.size < s.capacity
             THEN Done(s, h)
             ELSE Reserve(s, h, s.capacity + 1, ok)
    IN  IF r.res = "bad_alloc"
        THEN r
        ELSE [Store(r, r.s.size, item) EXCEPT !.s.size = @ + 1]

PushBack(s, h, item, ok) ==
    LET r == IF s.size < s.capacity
             THEN Done(s, h)
             ELSE Reserve(s, h, Max(1, 2 * s.capacity), ok)
    IN  IF r.res = "bad_alloc"
        THEN r
        ELSE [Store(r, r.s.size, item) EXCEPT !.s.size = @ + 1]

(* VectorMoveRigth with ++size_ ahead of the growth. *)
VectorMoveRigth_SizeFirst(s, h, number_pos, ok) ==
    LET r == IF s.size < s.capacity
             THEN MoveBackward(Done(s, h), number_pos)
             ELSE IF s.capacity = 0
             THEN Reserve(s, h, 1, ok)
             ELSE LET g == Reserve(s, h, 2 * s.capacity, ok)
                  IN  IF g.res = "bad_alloc" THEN g ELSE MoveBackward(g, number_pos)
    IN  IF r.res = "bad_alloc"
        THEN [r EXCEPT !.s.size = @ + 1]
        ELSE [r EXCEPT !.s.size = @ + 1, !.ret = [p |-> r.s.items, i |-> number_pos]]

VectorMoveRigth(s, h, number_pos, ok) ==
    LET r == IF s.size < s.capacity
             THEN MoveBackward(Done(s, h), number_pos)
             ELSE IF s.capacity = 0
             THEN Reserve(s, h, 1, ok)
             ELSE LET g == Reserve(s, h, 2 * s.capacity, ok)
                  IN  IF g.res = "bad_alloc" THEN g ELSE MoveBackward(g, number_pos)
    IN  IF r.res = "bad_alloc"
        THEN r
        ELSE [r EXCEPT !.s.size = @ + 1, !.ret = [p |-> r.s.items, i |-> number_pos]]

Insert(s, h, pos, value, ok) ==
    LET r == VectorMoveRigth(s, h, pos, ok)
    IN  IF r.res = "bad_alloc"
        THEN r
        ELSE [Store(r, r.ret.i, value) EXCEPT !.ret = [p |-> r.s.items, i |-> r.ret.i]]

(* operator[](index) = value *)
Assign(s, h, index, value) == Store(Done(s, h), index, value)

(* At that takes the capacity for the bound of the index. *)
At_Capacity(s, h, index) ==
    IF index >= s.capacity
    THEN [Done(s, h) EXCEPT !.res = "out_of_range"]
    ELSE IF index < BlockLen(h, s.items)
    THEN [Done(s, h) EXCEPT !.ret = [p |-> s.items, i |-> index]]
    ELSE [Done(s, h) EXCEPT !.res = "ub"]

(* At(index): throws for index >= size_, else a reference to items_[index]. *)
At(s, h, index) ==
    IF index >= s.size
    THEN [Done(s, h) EXCEPT !.res = "out_of_range"]
    ELSE IF index < BlockLen(h, s.items)
    THEN [Done(s, h) EXCEPT !.ret = [p |-> s.items, i |-> index]]
    ELSE [Done(s, h) EXCEPT !.res = "ub"]

(* A PopBack without the test for an empty vector. *)
PopBack_Unchecked(s, h) == Done([s EXCEPT !.size = @ - 1], h)

(* With assertions compiled out; on an empty vector nothing happens. *)
PopBack(s, h) ==
    IF s.size # 0 THEN Done([s EXCEPT !.size = @ - 1], h) ELSE Done(s, h)

(* Erase that lowers the size and moves nothing. *)
Erase_NoShift(s, h, pos) ==
    [Done([s EXCEPT !.size = @ - 1], h) EXCEPT !.ret = [p |-> s.items, i |-> pos]]

(* pos is a position of [begin(), end()): cells (pos, size_) go one left. *)
Erase(s, h, pos) ==
    LET old == Cells(h, s.items)
        n   == Len(old)
        new == [i \in 1..n |->
                  IF pos + 1 <= i /\ i <= s.size - 1 /\ i + 1 <= n
                  THEN old[i + 1] ELSE old[i]]
        r   == Done([s EXCEPT !.size = @ - 1],
                    IF n = 0 THEN h ELSE [h EXCEPT ![s.items] = new])
    IN  [r EXCEPT !.res = IF s.size > n THEN "ub" ELSE "ok",
                  !.ret = [p |-> s.items, i |-> pos]]

(***************************************************************************)
(* The constructors, each on a heap h that holds the new object's block.   *)
(***************************************************************************)
(* SimpleVector(size_t size) *)
CtorSize(h, size) ==
    LET a == ArrayPtrNew(h, size)
    IN  MoveOut(Done([size |-> size, capacity |-> size, items |-> a.p], a.h), 0, size)

(* SimpleVector(size_t size, const Type& value) *)
CtorFill(h, size, value) ==
    LET a == ArrayPtrNew(h, size)
    IN  MoveOut(Done([size |-> size, capacity |-> size, items |-> a.p], a.h), 0, size)

(* SimpleVector(std::initializer_list<Type> init) *)
CtorList(h, init) ==
    LET a == ArrayPtrNew(h, Len(init))
    IN  Done([size |-> Len(init), capacity |-> Len(init), items |-> a.p],
             IF a.p = Null THEN a.h ELSE [a.h EXCEPT ![a.p] = init])

(* A copy constructor that takes other's block for its own. *)
CtorCopy_Shallow(h, other) ==
    Done([size |-> other.size, capacity |-> other.capacity, items |-> other.items], h)

(* SimpleVector(const SimpleVector& other) *)
CtorCopy(h, other) ==
    LET a   == ArrayPtrNew(h, other.size)
        src == Cells(h, other.items)
        r   == Done([size |-> other.size, capacity |-> other.capacity, items |-> a.p],
                    IF a.p = Null
                    THEN a.h
                    ELSE [a.h EXCEPT ![a.p] =
                            [i \in 1..other.size |->
                               IF i <= Len(src) THEN src[i] ELSE Default]])
    IN  IF other.size > Len(src) THEN [r EXCEPT !.res = "ub"] ELSE r

(* SimpleVector(ReserveProxyObj): items_ is built from size_, which is 0. *)
CtorReserve(h, capacity_to_reserve) ==
    LET a == ArrayPtrNew(h, 0)
    IN  Done([size |-> 0, capacity |-> capacity_to_reserve, items |-> a.p], a.h)

(* A swap that exchanges the sizes only. *)
swap_Sizes(sx, sy, h) ==
    [x |-> [sx EXCEPT !.size = sy.size], y |-> [sy EXCEPT !.size = sx.size],
     h |-> h, res |-> "ok"]

(* swap(other): the three members are exchanged. *)
swap(sx, sy, h) == [x |-> sy, y |-> sx, h |-> h, res |-> "ok"]

(* A move constructor that leaves other its members. *)
CtorMove_KeepSource(h, other) == [x |-> other, y |-> other, h |-> h, res |-> "ok"]

(* SimpleVector(SimpleVector&& other): other keeps 0, 0 and a null pointer. *)
CtorMove(h, other) == [x |-> other, y |-> EmptyVector, h |-> h, res |-> "ok"]

(* operator=(const SimpleVector& rhs), this != &rhs: tmp(rhs); swap(tmp); *)
(* tmp leaves with the block this owned.                                  *)
CopyAssign(sx, sy, h, ok) ==
    IF sy.size > 0 /\ ~ok
    THEN [x |-> sx, y |-> sy, h |-> h, res |-> "bad_alloc"]
    ELSE LET tmp == CtorCopy(h, sy)
             w   == swap(sx, tmp.s, tmp.h)
         IN  [x |-> w.x, y |-> sy, h |-> ArrayPtrFree(w.h, w.y.items), res |-> tmp.res]

(* operator=(SimpleVector&& rhs), this != &rhs: tmp = move(rhs); swap(tmp) *)
MoveAssign(sx, sy, h) ==
    LET tmp == CtorMove(h, sy)
        w   == swap(sx, tmp.x, tmp.h)
    IN  [x |-> w.x, y |-> tmp.y, h |-> ArrayPtrFree(w.h, w.y.items), res |-> "ok"]

(***************************************************************************)
(* The comparison operators (free functions over two vectors).             *)
(***************************************************************************)
(* *(s.begin() + i); a cell outside the owned block reads as -1. *)
Load(s, h, i) == IF i < BlockLen(h, s.items) THEN Cells(h, s.items)[i + 1] ELSE -1

(* std::equal(lhs.begin(), lhs.end(), rhs.begin()) *)
StdEqual(lhs, rhs, h) ==
    \A i \in 0..(lhs.size - 1) : Load(lhs, h, i) = Load(rhs, h, i)

(* An operator== that compares the two blocks cell by cell. *)
OperatorEq_Blocks(lhs, rhs, h) ==
    lhs.size = rhs.size /\ Cells(h, lhs.items) = Cells(h, rhs.items)

OperatorEq(lhs, rhs, h) ==
    lhs.size = rhs.size /\ StdEqual(lhs, rhs, h)

OperatorNe(lhs, rhs, h) == ~OperatorEq(lhs, rhs, h)

(* std::lexicographical_compare from cell i of both ranges on. *)
RECURSIVE LexicographicalCompare(_, _, _, _)
LexicographicalCompare(lhs, rhs, h, i) ==
    IF i < lhs.size /\ i < rhs.size
    THEN IF Load(lhs, h, i) < Load(rhs, h, i)
         THEN TRUE
         ELSE IF Load(rhs, h, i) < Load(lhs, h, i)
         THEN FALSE
         ELSE LexicographicalCompare(lhs, rhs, h, i + 1)
    ELSE i = lhs.size /\ i # rhs.size

OperatorLess(lhs, rhs, h) == LexicographicalCompare(lhs, rhs, h, 0)

OperatorLe(lhs, rhs, h) == ~OperatorLess(rhs, lhs, h)

OperatorGt(lhs, rhs, h) == OperatorLess(rhs, lhs, h)

OperatorGe(lhs, rhs, h) == ~OperatorGt(rhs, lhs, h)

(***************************************************************************)
(* The state: the fields of the two vector objects, the heap, the objects   *)
(* that are alive (constructed and not yet destroyed), and the last call   *)
(* made (which operation, on which object, with which arguments, how it    *)
(* ended, what it returned, whether it raised the object's capacity, and   *)
(* room: how many more PushBack calls the last Reserve(n) on the object    *)
(* has left of the n - size it was made for).                              *)
(* keep tells whether the arguments and the returned position of a call    *)
(* are kept in last; it never changes.                                     *)
(***************************************************************************)
Running == last.res # "ub"

Call(op, x, arg, pos, res, ret, grew) ==
    [op |-> op, v |-> x, arg |-> arg, pos |-> pos, res |-> res, ret |-> ret,
     grew |-> grew, room |-> 0]

(* The PushBack calls left after the call op(arg) on x that ended as r:   *)
(* Reserve(n) on a vector of size s <= n leaves n - s, each PushBack that *)
(* follows on x takes one, any other call ends the count.                 *)
Room(op, x, arg, r) ==
    IF op = "Reserve" /\ arg >= r.s.size
    THEN arg - r.s.size
    ELSE IF op = "PushBack" /\ last.v = x /\ last.room > 0
    THEN last.room - 1
    ELSE 0

NoObject ==
    /\ vec = [x \in Vecs |-> EmptyVector]
    /\ heap = [b \in Blocks |-> <<>>]
    /\ alive = {}
    /\ last = Call("init", "a", 0, 0, "ok", NoPos, FALSE)

Init == NoObject /\ keep = TRUE

(* Of each call only the operation, the object and the ending are kept. *)
Init2 == NoObject /\ keep = FALSE

(* The heaps the stores past the end of a block can leave: a store is     *)
(* lost, or it lands in a cell of a live block the vector does not own.   *)
Astray(r) ==
    {r.h} \cup
    {[r.h EXCEPT ![b] = [@ EXCEPT ![c] = val]] :
        <<b, c, val>> \in
            {t \in Blocks \X (1..MaxGrow + 1) \X r.stray :
                /\ t[1] # r.s.items
                /\ t[2] <= Len(r.h[t[1]])}}

(* The step of a call on x that ended as res; of a call that threw only  *)
(* the operation is kept.                                                *)
Commit(op, x, arg, pos, res) ==
    \E r \in {res} :
        /\ last' = IF r.res = "bad_alloc"
                   THEN Call(op, x, 0, 0, r.res, NoPos, FALSE)
                   ELSE IF keep
                   THEN [Call(op, x, arg, pos, r.res, r.ret,
                              x \in alive /\ r.s.capacity > vec[x].capacity)
                            EXCEPT !.room = Room(op, x, arg, r)]
                   ELSE Call(op, x, 0, 0, r.res, NoPos,
                             x \in alive /\ r.s.capacity > vec[x].capacity)
        /\ keep' = keep
        /\ IF r.res # "ub"
           THEN /\ vec' = [vec EXCEPT ![x] = r.s]
                /\ heap' = r.h
           ELSE \/ UNCHANGED <<vec, heap>>
                \/ /\ r.s.items # Null
                   /\ vec' = [vec EXCEPT ![x] = r.s]
                   /\ heap' \in Astray(r)

(* The step of a call on x and y that ended as res. *)
Commit2(op, x, y, res) ==
    \E w \in {res} :
        /\ last' = Call(op, x, 0, 0, w.res, NoPos, FALSE)
        /\ keep' = keep
        /\ vec' = [vec EXCEPT ![x] = w.x, ![y] = w.y]
        /\ heap' = w.h

Lists(lim) == UNION {[1..n -> Values] : n \in 0..Min(lim, MaxList)}

(* Constructions of the object named x. *)
NewDefault(x) ==
    /\ Running /\ x \notin alive
    /\ alive' = alive \cup {x}
    /\ Commit("SimpleVector()", x, 0, 0, Done(EmptyVector, heap))

NewSize(x, size) ==
    /\ Running /\ x \notin alive
    /\ alive' = alive \cup {x}
    /\ Commit("SimpleVector(size)", x, 0, size, CtorSize(heap, size))

NewFill(x, size, value) ==
    /\ Running /\ x \notin alive
    /\ alive' = alive \cup {x}
    /\ Commit("SimpleVector(size,value)", x, value, size, CtorFill(heap, size, value))

NewList(x, init) ==
    /\ Running /\ x \notin alive
    /\ alive' = alive \cup {x}
    /\ Commit("SimpleVector(init)", x, 0, Len(init), CtorList(heap, init))

NewReserve(x, hint) ==
    /\ Running /\ x \notin alive
    /\ alive' = alive \cup {x}
    /\ Commit("SimpleVector(Reserve)", x, 0, hint, CtorReserve(heap, hint))

NewCopy(x, y) ==
    /\ Running /\ x \notin alive /\ y \in alive
    /\ alive' = alive \cup {x}
    /\ Commit("SimpleVector(copy)", x, 0, 0, CtorCopy(heap, vec[y]))

NewMove(x, y) ==
    /\ Running /\ x \notin alive /\ y \in alive
    /\ alive' = alive \cup {x}
    /\ Commit2("SimpleVector(move)", x, y, CtorMove(heap, vec[y]))

(* The object named x goes out of scope: ~ArrayPtr() releases its block. *)
Destroy(x) ==
    /\ Running /\ x \in alive
    /\ alive' = alive \ {x}
    /\ Commit("~SimpleVector", x, 0, 0,
              Done(EmptyVector, ArrayPtrFree(heap, vec[x].items)))

(* Calls of the member functions.  The allocator refuses (ok = FALSE)    *)
(* only a call that asks it for a block; a call it serves leaves a       *)
(* capacity of at most lim.                                              *)
CallCopyAssign(x, y, ok) ==
    /\ Running /\ {x, y} \subseteq alive /\ x # y
    /\ UNCHANGED alive
    /\ \E w \in {CopyAssign(vec[x], vec[y], heap, ok)} :
          /\ ok \/ w.res = "bad_alloc"
          /\ Commit2("operator=(copy)", x, y, w)

CallMoveAssign(x, y) ==
    /\ Running /\ {x, y} \subseteq alive /\ x # y
    /\ UNCHANGED alive
    /\ Commit2("operator=(move)", x, y, MoveAssign(vec[x], vec[y], heap))

CallSwap(x, y) ==
    /\ Running /\ {x, y} \subseteq alive /\ x # y
    /\ UNCHANGED alive
    /\ Commit2("swap", x, y, swap(vec[x], vec[y], heap))

CallClear(x) ==
    /\ Running /\ x \in alive
    /\ UNCHANGED alive
    /\ Commit("Clear", x, 0, 0, Clear(vec[x], heap))

CallResize(x, new_size, ok, lim) ==
    /\ Running /\ x \in alive
    /\ UNCHANGED alive
    /\ \E r \in {Resize(vec[x], heap, new_size, ok)} :
          /\ ok \/ r.res = "bad_alloc"
          /\ r.s.capacity <= lim
          /\ Commit("Resize", x, new_size, 0, r)

CallPushBack(x, item, ok, lim) ==
    /\ Running /\ x \in alive
    /\ UNCHANGED alive
    /\ \E r \in {PushBack(vec[x], heap, item, ok)} :
          /\ ok \/ r.res = "bad_alloc"
          /\ r.s.capacity <= lim
          /\ Commit("PushBack", x, item, 0, r)

CallInsert(x, pos, value, ok, lim) ==
    /\ Running /\ x \in alive
    /\ pos <= vec[x].size
    /\ UNCHANGED alive
    /\ \E r \in {Insert(vec[x], heap, pos, value, ok)} :
          /\ ok \/ r.res = "bad_alloc"
          /\ r.s.capacity <= lim
          /\ Commit("Insert", x, value, pos, r)

CallAssign(x, index, value) ==
    /\ Running /\ x \in alive
    /\ index < vec[x].size
    /\ UNCHANGED alive
    /\ Commit("operator[]", x, value, index, Assign(vec[x], heap, index, value))

(* At(index) with any index: the call checks it. *)
CallAt(x, index) ==
    /\ Running /\ x \in alive
    /\ UNCHANGED alive
    /\ Commit("At", x, 0, index, At(vec[x], heap, index))

CallPopBack(x) ==
    /\ Running /\ x \in alive
    /\ UNCHANGED alive
    /\ Commit("PopBack", x, 0, 0, PopBack(vec[x], heap))

CallErase(x, pos) ==
    /\ Running /\ x \in alive
    /\ pos < vec[x].size
    /\ UNCHANGED alive
    /\ Commit("Erase", x, 0, pos, Erase(vec[x], heap, pos))

CallReserve(x, new_capacity, ok) ==
    /\ Running /\ x \in alive
    /\ UNCHANGED alive
    /\ \E r \in {Reserve(vec[x], heap, new_capacity, ok)} :
          /\ ok \/ r.res = "bad_alloc"
          /\ Commit("Reserve", x, new_capacity, 0, r)

(* x is compared with y by each of the six operators; the six answers   *)
(* are what the call returns.                                            *)
CallCompare(x, y) ==
    /\ Running /\ {x, y} \subseteq alive
    /\ UNCHANGED <<vec, heap, alive, keep>>
    /\ last' = [Call("compare", x, 0, 0,
                      IF vec[x].size > BlockLen(heap, vec[x].items)
                         \/ vec[y].size > BlockLen(heap, vec[y].items)
                      THEN "ub" ELSE "ok",
                      NoPos, FALSE)
                 EXCEPT !.ret = [with |-> y,
                                 eq |-> OperatorEq(vec[x], vec[y], heap),
                                 ne |-> OperatorNe(vec[x], vec[y], heap),
                                 lt |-> OperatorLess(vec[x], vec[y], heap),
                                 le |-> OperatorLe(vec[x], vec[y], heap),
                                 gt |-> OperatorGt(vec[x], vec[y], heap),
                                 ge |-> OperatorGe(vec[x], vec[y], heap)]]

(* The constructions of x, with capacities up to lim. *)
Construct(x, lim) ==
    \/ NewDefault(x)
    \/ \E size \in 0..lim : NewSize(x, size)
    \/ \E size \in 0..lim, value \in Values : NewFill(x, size, value)
    \/ \E init \in Lists(lim) : NewList(x, init)
    \/ \E hint \in 0..lim : NewReserve(x, hint)

(* The member calls on x alone, with capacities up to lim. *)
Member(x, lim) ==
    \/ CallClear(x)
    \/ \E n \in 0..lim, ok \in BOOLEAN : CallResize(x, n, ok, lim)
    \/ \E item \in Values, ok \in BOOLEAN : CallPushBack(x, item, ok, lim)
    \/ \E pos \in 0..lim, value \in Values, ok \in BOOLEAN :
          CallInsert(x, pos, value, ok, lim)
    \/ \E index \in 0..lim, value \in Values : CallAssign(x, index, value)
    \/ CallPopBack(x)
    \/ \E pos \in 0..lim : CallErase(x, pos)
    \/ \E n \in 0..lim, ok \in BOOLEAN : CallReserve(x, n, ok)

(* The calls that involve both objects. *)
Pair(x, y) ==
    \/ NewCopy(x, y)
    \/ NewMove(x, y)
    \/ \E ok \in BOOLEAN : CallCopyAssign(x, y, ok)
    \/ CallMoveAssign(x, y)
    \/ CallSwap(x, y)

(* One vector, "a", with capacities up to MaxCap. *)
Next ==
    \/ Construct("a", MaxCap)
    \/ Member("a", MaxCap)
    \/ \E index \in 0..MaxCap : CallAt("a", index)
    \/ Destroy("a")

Spec == Init /\ [][Next]_vars

(* Both vectors, with capacities up to MaxCap2. *)
Next2 ==
    \E x \in Vecs :
        \/ Construct(x, MaxCap2)
        \/ Member(x, MaxCap2)
        \/ Destroy(x)
        \/ Pair(x, Other(x))

Spec2 == Init2 /\ [][Next2]_vars

(* A vector "a" and its copies: "b" is only ever made as a copy of "a";  *)
(* capacities up to MaxCapCopy.                                         *)
NextCopy ==
    \/ Construct("a", MaxCapCopy)
    \/ NewCopy("b", "a")
    \/ \E ok \in BOOLEAN : CallCopyAssign("b", "a", ok)
    \/ \E x \in Vecs : Member(x, MaxCapCopy) \/ Destroy(x)

SpecCopy == Init /\ [][NextCopy]_vars

(* A default-constructed vector that only grows: PushBack, and Insert *)
(* at begin() or end(), with capacities up to MaxGrow.                *)
NextGrow ==
    \/ NewDefault("a")
    \/ \E item \in Values, ok \in BOOLEAN : CallPushBack("a", item, ok, MaxGrow)
    \/ \E pos \in {0, vec["a"].size}, value \in Values, ok \in BOOLEAN :
          CallInsert("a", pos, value, ok, MaxGrow)

SpecGrow == Init /\ [][NextGrow]_vars

(* Two vectors made from initializer lists of up to MaxCmp elements,    *)
(* shortened by PopBack and Clear, and compared.                        *)
NextCmp ==
    \E x \in Vecs :
        \/ \E init \in Lists(MaxCmp) : NewList(x, init)
        \/ CallPopBack(x)
        \/ CallClear(x)
        \/ \E y \in Vecs : CallCompare(x, y)

SpecCmp == Init /\ [][NextCmp]_vars

(***************************************************************************)
(* The properties.                                                         *)
(***************************************************************************)
(* The vector the last call was made on, before and after the call. *)
Pre == vec[last'.v]

Post == vec'[last'.v]

PreElems == Elems(vec[last'.v], heap)

PostElems == Elems(vec'[last'.v], heap')

(* The call just made is op and did not end in std::bad_alloc. *)
Returned(op) == last'.op = op /\ last'.res # "bad_alloc"

(* C1: the reported capacity is the length of the owned block in every    *)
(* reachable state, whichever constructor made the vector, so that a      *)
(* PushBack or Insert never stores outside the owned block.               *)
C1_CapacityIsBlockLength ==
    /\ \A x \in alive : vec[x].capacity = BlockLen(heap, vec[x].items)
    /\ last.op \in {"PushBack", "Insert"} => last.res # "ub"

(* C2: after any sequence of calls within their preconditions every       *)
(* vector has 0 <= size <= capacity.                                      *)
C2_SizeWithinCapacity ==
    \A x \in Vecs : 0 <= vec[x].size /\ vec[x].size <= vec[x].capacity

C2_Witness ==
    /\ last.op = "Resize" /\ last.res = "ok" /\ last.grew
    /\ vec[last.v].size > 0
    /\ vec[last.v].size = vec[last.v].capacity
    /\ {"a", "b"} \subseteq alive

(* C3: PushBack(v), in any reachable state, raises size by exactly 1,      *)
(* makes the last element v and leaves the elements before it as they      *)
(* were.                                                                   *)
C3_PushBackAppends ==
    [][Returned("PushBack") =>
          /\ last'.res = "ok"
          /\ Post.size = Pre.size + 1
          /\ PostElems = Append(PreElems, last'.arg)]_vars

(* C4: Insert(pos, value), for every position p of [0, size], yields       *)
(* old[0..p) + [value] + old[p..size), raises size by exactly 1 and        *)
(* returns position p of the current storage.                              *)
C4_InsertAtPosition ==
    [][Returned("Insert") =>
          /\ last'.res = "ok"
          /\ Post.size = Pre.size + 1
          /\ PostElems = SubSeq(PreElems, 1, last'.pos)
                           \o <<last'.arg>>
                           \o SubSeq(PreElems, last'.pos + 1, Pre.size)
          /\ last'.ret = [p |-> Post.items, i |-> last'.pos]]_vars

(* C5: Erase(pos), for every position p of [0, size), yields               *)
(* old[0..p) + old[p+1..size), lowers size by exactly 1, keeps the         *)
(* capacity and returns position p.                                        *)
C5_EraseAtPosition ==
    [][last'.op = "Erase" =>
          /\ last'.res = "ok"
          /\ Post.size = Pre.size - 1
          /\ Post.capacity = Pre.capacity
          /\ PostElems = SubSeq(PreElems, 1, last'.pos)
                           \o SubSeq(PreElems, last'.pos + 2, Pre.size)
          /\ last'.ret = [p |-> Post.items, i |-> last'.pos]
          /\ Post.items = Pre.items]_vars

C5_Witness ==
    /\ last.op = "Erase" /\ last.res = "ok" /\ last.pos = 1
    /\ vec["a"].size = 2
    /\ Elems(vec["a"], heap) = <<1, 1>>
    /\ Cells(heap, vec["a"].items)[3] = 1

(* C6: Resize(n) with n above the size sets the size to n, keeps the       *)
(* elements of [0, old size) and makes every index of [old size, n) read   *)
(* as the default value, also when the cells past the size hold stale      *)
(* values.                                                                 *)
C6_ResizeGrowsWithDefaults ==
    [][(last'.op = "Resize" /\ last'.res = "ok" /\ last'.arg > Pre.size) =>
          /\ Post.size = last'.arg
          /\ PostElems = PreElems \o [i \in 1..(last'.arg - Pre.size) |-> Default]]_vars

(* C7: a call that ends in an allocation failure leaves the vector as it   *)
(* was: same size, capacity, elements and owned block.                     *)
C7_FailureChangesNothing ==
    [][last'.res = "bad_alloc" =>
          /\ last'.op \in {"PushBack", "Insert", "Resize", "Reserve", "operator=(copy)"}
          /\ vec' = vec
          /\ heap' = heap
          /\ alive' = alive]_vars

C7_Witness ==
    /\ last.res = "bad_alloc" /\ last.op = "Insert"
    /\ vec[last.v].size = vec[last.v].capacity
    /\ vec[last.v].size > 0

(* C8: a copy has the size and the elements of its source and a block of  *)
(* its own, and a later change of the copy leaves the source's size,       *)
(* capacity and elements as they were, and the other way round.            *)
C8_CopyIsIndependent ==
    [][/\ (last'.op \in {"SimpleVector(copy)", "operator=(copy)"}
             /\ last'.res # "bad_alloc") =>
             /\ vec'["b"].size = vec["a"].size
             /\ Elems(vec'["b"], heap') = Elems(vec["a"], heap)
             /\ vec'["b"].items = Null \/ vec'["b"].items # vec'["a"].items
       /\ \A x \in Vecs :
             (/\ last'.v = x
              /\ last'.op \in {"PushBack", "Insert", "Erase", "PopBack",
                               "Resize", "Clear", "operator[]"}
              /\ Other(x) \in alive) =>
                /\ vec'[Other(x)] = vec[Other(x)]
                /\ Elems(vec'[Other(x)], heap') = Elems(vec[Other(x)], heap)]_vars

(* The capacity k elements need when grown from nothing: 0, or the least  *)
(* of 1, 2, 4, 8, ... that is >= k.                                       *)
RECURSIVE Chain(_, _)
Chain(k, c) == IF k = 0 THEN 0 ELSE IF c >= k THEN c ELSE Chain(k, 2 * c)

(* C9: PushBack and Insert change the capacity only when size = capacity, *)
(* to max(1, 2 x capacity); a default-constructed vector that took k      *)
(* of them has capacity 0 for k = 0 and else the least of 1, 2, 4, 8, ... *)
(* that is >= k.                                                          *)
C9_GrowthPolicy ==
    /\ [][(Returned("PushBack") \/ Returned("Insert")) =>
             Post.capacity = IF Pre.size = Pre.capacity
                             THEN Max(1, 2 * Pre.capacity)
                             ELSE Pre.capacity]_vars
    /\ [](vec["a"].capacity = Chain(vec["a"].size, 1))

C9_Witness ==
    /\ last.op = "PushBack" /\ last.res = "ok" /\ last.grew
    /\ vec["a"].size = 5 /\ vec["a"].capacity = 8

(* C10: Reserve(n) with n above the capacity makes the capacity n and      *)
(* keeps the size and the elements.                                        *)
C10_ReserveRaisesCapacity ==
    [][(Returned("Reserve") /\ last'.arg > Pre.capacity) =>
          /\ last'.res = "ok"
          /\ Post.capacity = last'.arg
          /\ BlockLen(heap', Post.items) = last'.arg
          /\ Post.size = Pre.size
          /\ PostElems = PreElems]_vars

C10_Witness ==
    /\ last.op = "Reserve" /\ last.res = "ok" /\ last.grew
    /\ vec["a"].size = 2 /\ vec["a"].capacity = 3
    /\ Elems(vec["a"], heap) = <<1, 0>>

(* C11: Reserve(n) with n <= capacity, n = capacity included, changes      *)
(* nothing: the vector keeps its block, size, capacity and elements, and   *)
(* the heap is as it was (nothing was allocated).                          *)
C11_ReserveWithinCapacityIsNoOp ==
    [][(Returned("Reserve") /\ last'.arg <= Pre.capacity) =>
          /\ last'.res = "ok"
          /\ Post = Pre
          /\ heap' = heap]_vars

(* C12: Reserve(n) on a vector of size s <= n leaves the size s and a      *)
(* capacity of at least n, and each of the next n - s PushBack calls       *)
(* completes without reallocation: the capacity and the owned block stay   *)
(* the same.                                                               *)
C12_ReservedPushBacksKeepBlock ==
    [][/\ (Returned("Reserve") /\ last'.arg >= Pre.size) =>
             /\ last'.res = "ok"
             /\ Post.size = Pre.size
             /\ Post.capacity >= last'.arg
       /\ (last'.op = "PushBack" /\ last'.v = last.v /\ last.room > 0) =>
             /\ last'.res = "ok"
             /\ Post.capacity = Pre.capacity
             /\ Post.items = Pre.items]_vars

(* C13: At(i) throws std::out_of_range exactly when i >= size, and        *)
(* otherwise returns the element at index i of the owned block; either     *)
(* way the size, the capacity and the elements are as they were.           *)
C13_AtChecksIndex ==
    [][last'.op = "At" =>
          /\ last'.res = (IF last'.pos >= Pre.size THEN "out_of_range" ELSE "ok")
          /\ last'.res = "ok" =>
                /\ last'.ret = [p |-> Pre.items, i |-> last'.pos]
                /\ last'.pos < BlockLen(heap, Pre.items)
          /\ vec' = vec
          /\ heap' = heap]_vars

C13_Witness ==
    /\ last.op = "At" /\ last.res = "out_of_range"
    /\ vec["a"].size = 2 /\ last.pos = 2 /\ vec["a"].capacity = 4
    /\ BlockLen(heap, vec["a"].items) = 4

(* C14: move construction and move assignment from another vector give    *)
(* the destination the source's former size, capacity, block and element   *)
(* sequence, and leave the source with size 0, capacity 0 and no block.    *)
C14_MoveTransfersOwnership ==
    [][last'.op \in {"SimpleVector(move)", "operator=(move)"} =>
          /\ last'.res = "ok"
          /\ Post.size = vec[Other(last'.v)].size
          /\ Post.capacity = vec[Other(last'.v)].capacity
          /\ Post.items = vec[Other(last'.v)].items
          /\ PostElems = Elems(vec[Other(last'.v)], heap)
          /\ vec'[Other(last'.v)] = EmptyVector]_vars

C14_Witness ==
    /\ last.op = "operator=(move)" /\ last.res = "ok"
    /\ {"a", "b"} \subseteq alive
    /\ vec[last.v].size = 1
    /\ Elems(vec[last.v], heap) = <<1>>
    /\ vec[Other(last.v)] = EmptyVector
    /\ Cardinality({b \in Blocks : heap[b] # <<>>}) = 1

(* C15: SimpleVector(n, value) yields size n, capacity n and n elements    *)
(* equal to value; SimpleVector(n) yields size n, capacity n and n         *)
(* elements equal to the default value.                                    *)
C15_ConstructFills ==
    [][/\ last'.op = "SimpleVector(size,value)" =>
             /\ last'.res = "ok"
             /\ Post.size = last'.pos
             /\ Post.capacity = last'.pos
             /\ PostElems = [i \in 1..last'.pos |-> last'.arg]
       /\ last'.op = "SimpleVector(size)" =>
             /\ last'.res = "ok"
             /\ Post.size = last'.pos
             /\ Post.capacity = last'.pos
             /\ PostElems = [i \in 1..last'.pos |-> Default]]_vars

(* The lexicographic order of two sequences: s is a proper prefix of t, or *)
(* at the first index where they differ s has the smaller element.         *)
LexBefore(s, t) ==
    \E k \in 0..Min(Len(s), Len(t)) :
        /\ SubSeq(s, 1, k) = SubSeq(t, 1, k)
        /\ \/ k = Len(s) /\ k < Len(t)
           \/ k < Len(s) /\ k < Len(t) /\ s[k + 1] < t[k + 1]

(* C16: two vectors compare equal exactly when their sequences [0, size)   *)
(* are equal, whatever their capacities and the cells past their sizes;    *)
(* operator< is the lexicographic order of the two sequences; !=, <=, >    *)
(* and >= agree with them.                                                 *)
C16_ComparisonsOnSequences ==
    [][last'.op = "compare" =>
          LET s == Elems(vec[last'.v], heap)
              t == Elems(vec[last'.ret.with], heap)
          IN  /\ last'.res = "ok"
              /\ last'.ret.eq = (s = t)
              /\ last'.ret.ne = (s # t)
              /\ last'.ret.lt = LexBefore(s, t)
              /\ last'.ret.le = (LexBefore(s, t) \/ s = t)
              /\ last'.ret.gt = LexBefore(t, s)
              /\ last'.ret.ge = (LexBefore(t, s) \/ s = t)]_vars

C16_Witness ==
    /\ last.op = "compare" /\ last.res = "ok" /\ last.v = "a"
    /\ last.ret.with = "b" /\ last.ret.eq /\ last.ret.le /\ ~last.ret.lt
    /\ vec["a"].size = 1 /\ vec["a"].capacity = 1
    /\ vec["b"].size = 1 /\ vec["b"].capacity = 2
    /\ Cells(heap, vec["b"].items) = <<1, 0>>

(* C17: Clear() sets the size to 0 and leaves the capacity, the block and  *)
(* its cells as they were; a second Clear() changes nothing more.          *)
C17_ClearKeepsStorage ==
    [][last'.op = "Clear" =>
          /\ last'.res = "ok"
          /\ Post = [Pre EXCEPT !.size = 0]
          /\ heap' = heap
          /\ Clear(Post, heap') = Done(Post, heap')]_vars

C17_Witness ==
    /\ last.op = "Clear" /\ last.res = "ok"
    /\ vec["a"].size = 0 /\ vec["a"].capacity = 2
    /\ Cells(heap, vec["a"].items) = <<1, 1>>

(* C18: no two live vectors own the same block, a live vector's block is   *)
(* allocated, and every allocated block is owned by exactly one live       *)
(* vector.                                                                 *)
C18_ExclusiveOwnership ==
    /\ \A x \in alive : vec[x].items # Null => heap[vec[x].items] # <<>>
    /\ \A b \in Blocks :
          heap[b] # <<>> => Cardinality({x \in alive : vec[x].items = b}) = 1

C18_Witness ==
    /\ last.op = "operator=(copy)" /\ last.res = "ok"
    /\ {"a", "b"} \subseteq alive
    /\ vec["a"].items # Null /\ vec["b"].items # Null
    /\ Elems(vec["a"], heap) = <<1>> /\ Elems(vec["b"], heap) = <<1>>

(* C19: PopBack() on a non-empty vector lowers the size by exactly 1 and   *)
(* leaves the capacity, the block and the elements before the last as      *)
(* they were; on an empty vector it changes nothing and the size stays 0.  *)
C19_PopBackDropsLast ==
    [][last'.op = "PopBack" =>
          /\ last'.res = "ok"
          /\ Post = [Pre EXCEPT !.size = IF Pre.size > 0 THEN Pre.size - 1 ELSE 0]
          /\ Post.size >= 0
          /\ heap' = heap
          /\ PostElems = SubSeq(PreElems, 1, Pre.size - 1)]_vars

C19_Witness ==
    /\ last.op = "PopBack" /\ last.res = "ok"
    /\ vec["a"].size = 1 /\ vec["a"].capacity = 2
    /\ Cells(heap, vec["a"].items) = <<0, 1>>

(* C20: swap(other) gives each vector the other's former size, capacity,  *)
(* block and element sequence and leaves the heap as it was; a second swap *)
(* gives both their own back.                                              *)
C20_SwapExchanges ==
    [][last'.op = "swap" =>
          /\ last'.res = "ok"
          /\ vec'[last'.v] = vec[Other(last'.v)]
          /\ vec'[Other(last'.v)] = vec[last'.v]
          /\ heap' = heap
          /\ PostElems = Elems(vec[Other(last'.v)], heap)
          /\ Elems(vec'[Other(last'.v)], heap') = PreElems
          /\ swap(vec'[last'.v], vec'[Other(last'.v)], heap') =
                [x |-> vec[last'.v], y |-> vec[Other(last'.v)],
                 h |-> heap, res |-> "ok"]]_vars

C20_Witness ==
    /\ last.op = "swap" /\ last.res = "ok"
    /\ vec["a"].size = 1 /\ vec["a"].capacity = 1
    /\ vec["b"].size = 0 /\ vec["b"].capacity = 1
    /\ vec["a"].items # Null /\ vec["b"].items # Null
    /\ Elems(vec["a"], heap) = <<1>>

====
